---------------------------- MODULE Spec2Model ----------------------------
(***************************************************************************)
(* Model of the vue-ssr template compiler: the semantic lifter             *)
(* (ParseVue / VueElementParser.parseList) and the code generator          *)
(* (VueElement.GenCode, OptionsGen.ToGoCode, genVFor / genVSlot / genVIf). *)
(*                                                                         *)
(* Pointers are node ids: the raw Element list `es` is kept in document    *)
(* (pre-order) order, every element naming its parent, and the Vue tree    *)
(* `vue` is a heap from ids to VueElement records, so that two references  *)
(* to one VueElement (a child slot and a v-if chain entry, or a Go map     *)
(* shared between the tree and an OptionsGen) stay one object.             *)
(*                                                                         *)
(* Generated Go source text is kept as a term: one record constructor per  *)
(* fmt.Sprintf template of the generator, map literals as the sequence of  *)
(* their entries in the order the `range` loop visited them.  Two terms    *)
(* of one tree are equal exactly when the texts are byte-identical.        *)
(***************************************************************************)
EXTENDS Integers, Sequences, FiniteSets, TLC

VARIABLES
    app,      \* App.Components: the set of registered component names
    es,       \* the raw elements parseHtml returned, in document order
    phase,    \* "edit" | "parsed" | "fatal" | "generated" | "crashed"
    vue,      \* the Vue tree: node id -> VueElement
    gen,      \* what the last GenCode call returned (and its call log)
    outs      \* the generator outputs of the compilations finished so far

vars == <<app, es, phase, vue, gen, outs>>

\* Largest number of raw elements in one template.
MaxNodes == 3

\* How many times the same template is compiled.
MaxCompiles == 2

---------------------------------------------------------------------------
(* Generic helpers for Go maps and slices.                                 *)

\* A Go map[string]T is a function on a finite set of strings.
EmptyMap == [k \in {} |-> ""]

MapPut(m, k, v) == [x \in (DOMAIN m) \cup {k} |-> IF x = k THEN v ELSE m[x]]

MapDelete(m, k) == [x \in (DOMAIN m) \ {k} |-> m[x]]

\* for k, v := range src { dst[k] = v }
MapMerge(dst, src) ==
    [x \in (DOMAIN dst) \cup (DOMAIN src) |-> IF x \in DOMAIN src THEN src[x] ELSE dst[x]]

Reverse(s) == [i \in 1..Len(s) |-> s[Len(s) + 1 - i]]

\* An optional pointer: <<>> is nil, <<v>> points at v.
Nil == <<>>

---------------------------------------------------------------------------
(* Raw elements (type Element) and the templates the model compiles.       *)
(* An attribute keeps attr.Key as strings.Split(key, ":") returns it       *)
(* (Key), attr.Val trimmed (Val), and, for the values the lifter splits    *)
(* again (class on " ", style on ";" and ":", v-for on " in " and ","),    *)
(* the pieces of that split (Parts).                                       *)

Attr(key, val, parts) == [Key |-> key, Val |-> val, Parts |-> parts]

\* A text is a sequence of segments: literal text, or a {{ expr }} match.
Txt(s) == [t |-> "txt", s |-> s]
Var(s) == [t |-> "var", s |-> s]

Elem(tag, text, attrs) == [TagName |-> tag, Text |-> text, Attrs |-> attrs]

AVIf == Attr(<<"v-if">>, "a", <<>>)
AVElseIf == Attr(<<"v-else-if">>, "b", <<>>)
AVElse == Attr(<<"v-else">>, "", <<>>)
AVForPlain == Attr(<<"v-for">>, "item in list", <<<<"item">>, <<"list">>>>)
AVForTuple == Attr(<<"v-for">>, "(it, i) in xs", <<<<"it", "i">>, <<"xs">>>>)
AVSlotX == Attr(<<"v-slot", "x">>, "sp", <<>>)
AVSlotDefault == Attr(<<"v-slot", "default">>, "", <<>>)

\* The elements a template is built from.
Menu ==
    << Elem("__string", <<Txt("hi "), Var("name")>>, <<>>),
       Elem("comp", <<>>, <<>>),
       Elem("div", <<>>,
            << Attr(<<"v-custom", "arg">>, "val", <<>>),
               Attr(<<"", "class">>, "cls", <<>>),
               Attr(<<"v-bind", "id">>, "uid", <<>>),
               Attr(<<"href">>, "/", <<>>),
               Attr(<<"alt">>, "x", <<>>),
               Attr(<<"class">>, "x y", <<<<"x">>, <<"y">>>>),
               Attr(<<"style">>, "color:red; width:1px",
                    <<<<"color", "red">>, <<"width", "1px">>>>) >>),
       Elem("template", <<>>, <<AVSlotX>>),
       Elem("template", <<>>, <<AVSlotDefault>>),
       Elem("p", <<>>, <<AVIf>>),
       Elem("p", <<>>, <<AVElseIf>>),
       Elem("p", <<>>, <<AVElse>>),
       Elem("p", <<>>, <<AVIf, AVElse>>),
       Elem("p", <<>>, <<AVElseIf, AVElse>>),
       Elem("li", <<>>, <<AVIf, AVForPlain>>),
       Elem("template", <<>>, <<AVSlotX, AVIf, AVForTuple>>) >>

\* The attribute keys of the model that strings.HasPrefix(oriKey, "v-") accepts.
VDash == {"v-if", "v-else-if", "v-else", "v-for", "v-slot", "v-html", "v-text", "v-custom"}

\* Element.Children, in document order.  Parent 0 is the list parseHtml
\* returned (and the `template` element ParseVue wraps around it).
Children(s, p) == SelectSeq([i \in 1..Len(s) |-> i], LAMBDA i : s[i].Parent = p)

RECURSIVE Ancestors(_, _)
Ancestors(s, i) == IF i = 0 THEN {0} ELSE {i} \cup Ancestors(s, s[i].Parent)

---------------------------------------------------------------------------
(* The semantic lifter: VueElementParser.parseList.                        *)

VIfOf(cond) == [Condition |-> cond, ElseIf |-> <<>>]

ElseIfOf(types, cond) == [Types |-> types, Condition |-> cond, VueElement |-> 0]

\* The v-for operand: ss := strings.Split(val, " in "); the left side holds
\* "(item, index)" or "item".
VForOf(parts) ==
    LET left == parts[1]
        arrayKey == parts[2][1]
    IN IF Len(left) >= 2
       THEN [ArrayKey |-> arrayKey, ItemKey |-> left[1], IndexKey |-> left[2]]
       ELSE [ArrayKey |-> arrayKey, ItemKey |-> left[1], IndexKey |-> "$index"]

VSlotOf(slotName, val) ==
    [SlotName |-> slotName, PropsKey |-> IF val = "" THEN "slotProps" ELSE val]

\* The locals of one iteration of parseList's loop, before the attributes.
NoAttrs ==
    [props |-> EmptyMap, ds |-> <<>>, class |-> <<>>, style |-> EmptyMap,
     styleKeys |-> <<>>, attrs |-> EmptyMap, attrsKeys |-> <<>>,
     vIf |-> Nil, vFor |-> Nil, vSlot |-> Nil, vElse |-> Nil, vElseIf |-> Nil,
     vHtml |-> "", vText |-> ""]

RECURSIVE StyleDecls(_, _, _)
\* for _, v := range strings.Split(attr.Val, ";"): a piece that does not
\* split on ":" into exactly two parts is skipped.
StyleDecls(L, decls, i) ==
    IF i > Len(decls) THEN L
    ELSE IF Len(decls[i]) # 2 THEN StyleDecls(L, decls, i + 1)
    ELSE StyleDecls([L EXCEPT !.style = MapPut(@, decls[i][1], decls[i][2]),
                              !.styleKeys = Append(@, decls[i][1])],
                    decls, i + 1)

RECURSIVE ClassTokens(_, _)
ClassTokens(toks, i) ==
    IF i > Len(toks) THEN <<>>
    ELSE (IF toks[i][1] # "" THEN <<toks[i][1]>> ELSE <<>>) \o ClassTokens(toks, i + 1)

\* One attribute of the element: the body of `for _, attr := range e.Attrs`.
LiftAttr(L, attr) ==
    LET ss == attr.Key
        oriKey1 == ss[1]
        nameSpace == IF Len(ss) = 2 THEN ss[1] ELSE "-"
        key == IF Len(ss) = 2 THEN ss[2] ELSE ss[1]
    IN IF nameSpace = "v-bind" \/ nameSpace = ""
       THEN [L EXCEPT !.props = MapPut(@, key, attr.Val)]
       ELSE IF oriKey1 \in VDash
       THEN CASE key = "v-for" -> [L EXCEPT !.vFor = <<VForOf(attr.Parts)>>]
              [] key = "v-if" -> [L EXCEPT !.vIf = <<VIfOf(attr.Val)>>]
              [] key # "v-for" /\ key # "v-if" /\ nameSpace = "v-slot" ->
                    [L EXCEPT !.vSlot = <<VSlotOf(key, attr.Val)>>]
              [] nameSpace # "v-slot" /\ key = "v-else-if" ->
                    [L EXCEPT !.vElseIf = <<ElseIfOf("elseif", attr.Val)>>]
              [] nameSpace # "v-slot" /\ key = "v-else" ->
                    [L EXCEPT !.vElse = <<ElseIfOf("else", attr.Val)>>]
              [] nameSpace # "v-slot" /\ key = "v-html" -> [L EXCEPT !.vHtml = attr.Val]
              [] nameSpace # "v-slot" /\ key = "v-text" -> [L EXCEPT !.vText = attr.Val]
              [] OTHER ->
                    [L EXCEPT !.ds = Append(@,
                        [Name |-> IF nameSpace # "-" THEN nameSpace ELSE key,
                         Value |-> attr.Val,
                         Arg |-> IF nameSpace # "-" THEN key ELSE ""])]
       ELSE IF Len(ss) = 1 /\ oriKey1 = "class"
       THEN [L EXCEPT !.class = @ \o ClassTokens(attr.Parts, 1)]
       ELSE IF Len(ss) = 1 /\ oriKey1 = "style"
       THEN StyleDecls(L, attr.Parts, 1)
       ELSE [L EXCEPT !.attrs = MapPut(@, oriKey1, attr.Val),
                      !.attrsKeys = Append(@, oriKey1)]

RECURSIVE LiftAttrs(_, _, _)
LiftAttrs(L, attrs, i) ==
    IF i > Len(attrs) THEN L ELSE LiftAttrs(LiftAttr(L, attrs[i]), attrs, i + 1)

\* v := &VueElement{...}
NewVueElement(e, isRoot, L, ch) ==
    [IsRoot |-> isRoot, TagName |-> e.TagName, Text |-> e.Text,
     Attrs |-> L.attrs, AttrsKeys |-> L.attrsKeys, Directives |-> L.ds,
     Class |-> L.class, Style |-> L.style, StyleKeys |-> L.styleKeys,
     Props |-> L.props, Children |-> ch,
     VIf |-> L.vIf, VFor |-> L.vFor, VSlot |-> L.vSlot,
     VElse |-> L.vElse # Nil, VElseIf |-> L.vElseIf # Nil,
     VHtml |-> L.vHtml, VText |-> L.vText]

\* VIf.AddElseIf on the VIf of heap node `target`.
AddElseIf(h, target, entry) ==
    [h EXCEPT ![target].VIf = <<[@[1] EXCEPT !.ElseIf = Append(@, entry)]>>]

\* The cursor after the `if vIf != nil {...} else {...}` statement.
CursorAfter(ifVueEle, id, L) ==
    IF L.vIf # Nil THEN <<id>>
    ELSE IF L.vElse = Nil /\ L.vElseIf = Nil THEN Nil
    ELSE ifVueEle

\* The chain bookkeeping that ends an iteration: the cursor update and the two
\* `if vElseIf != nil` / `if vElse != nil` blocks.  st is
\* [h, ifVueEle, panic]; the element v is already stored at h[id].
LinkChain(st, id, L) ==
    LET c1 == CursorAfter(st.ifVueEle, id, L)
        p1 == L.vElseIf # Nil /\ c1 = Nil
        h1 == IF L.vElseIf # Nil /\ c1 # Nil
              THEN AddElseIf(st.h, c1[1], [L.vElseIf[1] EXCEPT !.VueElement = id])
              ELSE st.h
        p2 == L.vElse # Nil /\ c1 = Nil
        h2 == IF L.vElse # Nil /\ c1 # Nil
              THEN AddElseIf(h1, c1[1], [L.vElse[1] EXCEPT !.VueElement = id])
              ELSE h1
        c2 == IF L.vElse # Nil THEN Nil ELSE c1
    IN IF p1 \/ p2 THEN [st EXCEPT !.panic = TRUE]
       ELSE [h |-> h2, ifVueEle |-> c2, panic |-> FALSE]

RECURSIVE ParseSiblings(_, _, _, _, _)
\* parseList on the sibling list `ids` from position i on.  `root` is the id
\* of the element ParseVue marked Root (0: none).
ParseSiblings(s, root, st, ids, i) ==
    IF st.panic \/ i > Len(ids) THEN st
    ELSE LET id == ids[i]
             e == s[id]
             L == LiftAttrs(NoAttrs, e.Attrs, 1)
             chIds == Children(s, id)
             ch == ParseSiblings(s, root, [h |-> st.h, ifVueEle |-> Nil, panic |-> FALSE],
                                 chIds, 1)
             v == NewVueElement(e, id = root, L, chIds)
             st1 == [h |-> MapPut(ch.h, id, v), ifVueEle |-> st.ifVueEle, panic |-> FALSE]
         IN IF ch.panic THEN [st EXCEPT !.panic = TRUE]
            ELSE ParseSiblings(s, root, LinkChain(st1, id, L), ids, i + 1)

parseList(s, root, h, ids) ==
    ParseSiblings(s, root, [h |-> h, ifVueEle |-> Nil, panic |-> FALSE], ids, 1)

\* The id of the Vue tree's root: the single top-level element, or 0 for the
\* `template` element ParseVue wraps around several (or no) top-level elements.
RootOf(s) == LET tops == Children(s, 0) IN IF Len(tops) = 1 THEN tops[1] ELSE 0

\* es[0].Children[0].Root = true
RootMark(s) ==
    LET tops == Children(s, 0)
    IN IF Len(tops) = 1 /\ s[tops[1]].TagName = "template" /\ Len(Children(s, tops[1])) = 1
       THEN Children(s, tops[1])[1]
       ELSE 0

\* ParseVue after parseHtml: [h |-> the Vue tree, panic |-> lifting failed].
ParseVueOf(s) ==
    LET tops == Children(s, 0)
    IN IF Len(tops) = 1
       THEN parseList(s, RootMark(s), EmptyMap, tops)
       ELSE LET ch == parseList(s, 0, EmptyMap, tops)
                v == NewVueElement(Elem("template", <<>>, <<>>), FALSE, NoAttrs, tops)
            IN [ch EXCEPT !.h = MapPut(@, 0, v)]

---------------------------------------------------------------------------
(* Generated code terms and the map / slice printers.                      *)

DataKey == "this"

\* The Go source text `""`.
EmptyLit == [k |-> "lit"]

\* The Go source text `nil`.
NilCode == [k |-> "nil"]

\* ast_from_api.Js2Go(expr, DataKey): the expression translated for scope DataKey.
Js2Go(expr, scope) == [k |-> "js2go", src |-> expr, scope |-> scope]

\* Every key a map of the model can hold, in one fixed listing.
KeyOrder == <<"default", "x", "class", "style", "id", "title", "href", "alt", "color", "width">>

\* The four maps ToGoCode prints with a `range` loop.
MapKinds == {"props", "attrs", "style", "slot"}

\* Go leaves the iteration order of a map unspecified: one compilation visits
\* the keys of each kind of map in listing order or in the opposite order.
\* (No map of the model holds more than two keys, so these are all its orders.)
Orders == [MapKinds -> BOOLEAN]

\* The keys of m in the order one `for k, v := range m` visits them.
RangeKeys(m, rev) ==
    LET ks == SelectSeq(KeyOrder, LAMBDA k : k \in DOMAIN m)
    IN IF rev THEN Reverse(ks) ELSE ks

MapEntries(m, rev) ==
    LET ks == RangeKeys(m, rev) IN [i \in 1..Len(ks) |-> [key |-> ks[i], val |-> m[ks[i]]]]

mapStringToGoCode(m, rev) ==
    IF DOMAIN m = {} THEN NilCode
    ELSE [k |-> "map", type |-> "map[string]string", entries |-> MapEntries(m, rev)]

mapGoCodeToCode(m, valueType, rev) ==
    [k |-> "map", type |-> "map[string]" \o valueType, entries |-> MapEntries(m, rev)]

mapJsCodeToCode(m, rev) ==
    IF DOMAIN m = {} THEN NilCode
    ELSE [k |-> "map", type |-> "map[string]interface{}",
          entries |-> MapEntries([x \in DOMAIN m |-> Js2Go(m[x], DataKey)], rev)]

sliceToGoCode(m) == [k |-> "slice", items |-> m]

\* getPropsClass / getPropsStyle: the transpiled props["class"] (props["style"]),
\* or `nil` when the prop is absent.
getPropsClass(props) ==
    IF "class" \in DOMAIN props THEN Js2Go(props["class"], DataKey) ELSE NilCode

getPropsStyle(props) ==
    IF "style" \in DOMAIN props THEN Js2Go(props["style"], DataKey) ELSE NilCode

\* slot["default"] = func (props map[string]interface{})string{return <children>}
DefaultSlotFn(children) == [k |-> "defaultfn", body |-> children]

\* The directive array of the options literal.
DirectivesCode(ds) ==
    [i \in 1..Len(ds) |->
        [Name |-> ds[i].Name,
         Value |-> IF ds[i].Value # "" THEN Js2Go(ds[i].Value, DataKey) ELSE NilCode]]

\* The child expressions joined by "+": parts[i] is [n |-> the child whose
\* GenCode returned it, c |-> that code].  No parts: the empty Go string.
CatCode(parts) == [k |-> "cat", parts |-> parts]

EmptyStr == CatCode(<<>>)

\* SlotMapOf with the default closure stored only when no named slot exists.
SlotMapOfNamedOnly(defaultSlotCode, namedSlotCode) ==
    IF DOMAIN namedSlotCode = {}
    THEN MapPut(EmptyMap, "default", DefaultSlotFn(defaultSlotCode))
    ELSE namedSlotCode

\* The Slot map of the options literal: default first, then the named slots.
SlotMapOf(defaultSlotCode, namedSlotCode) ==
    LET children == IF defaultSlotCode = EmptyStr THEN EmptyLit ELSE defaultSlotCode
        slot == MapPut(EmptyMap, "default", DefaultSlotFn(children))
    IN MapMerge(slot, namedSlotCode)

\* OptionsGen.ToGoCode: [code |-> the options literal, Props |-> o.Props afterwards].
\* o.Props is the map the VueElement holds, not a copy.
ToGoCode(o, ord) ==
    LET hasProps == DOMAIN o.Props # {}
        cCode == getPropsClass(o.Props)
        p1 == IF hasProps /\ cCode # NilCode THEN MapDelete(o.Props, "class") ELSE o.Props
        cStyle == getPropsStyle(p1)
        p2 == IF hasProps /\ cStyle # NilCode THEN MapDelete(p1, "style") ELSE p1
        slot == SlotMapOf(o.DefaultSlotCode, o.NamedSlotCode)
    IN [code |->
          [k |-> "options",
           PropsClass |-> IF hasProps /\ cCode # NilCode THEN <<cCode>> ELSE <<>>,
           PropsStyle |-> IF hasProps /\ cStyle # NilCode THEN <<cStyle>> ELSE <<>>,
           Props |-> IF hasProps /\ DOMAIN p2 # {}
                     THEN <<mapJsCodeToCode(p2, ord["props"])>> ELSE <<>>,
           Attrs |-> IF DOMAIN o.Attrs # {}
                     THEN <<mapStringToGoCode(o.Attrs, ord["attrs"])>> ELSE <<>>,
           Class |-> IF Len(o.Class) # 0 THEN <<sliceToGoCode(o.Class)>> ELSE <<>>,
           Style |-> IF DOMAIN o.Style # {}
                     THEN <<mapStringToGoCode(o.Style, ord["style"])>> ELSE <<>>,
           StyleKeys |-> IF Len(o.StyleKeys) # 0 THEN <<sliceToGoCode(o.StyleKeys)>> ELSE <<>>,
           Slot |-> mapGoCodeToCode(slot, "namedSlotFunc", ord["slot"]),
           P |-> "options",
           Directives |-> IF Len(o.Directives) # 0
                          THEN <<DirectivesCode(o.Directives)>> ELSE <<>>],
        Props |-> p2]

\* genVFor: the iteration closure around srcCode.
genVFor(e, srcCode) ==
    [k |-> "vfor", array |-> e.ArrayKey, index |-> e.IndexKey, item |-> e.ItemKey,
     scope |-> DataKey, body |-> srcCode]

\* The closure genVSlot stores under e.SlotName; n is the node carrying the v-slot.
SlotFn(n, e, srcCode) ==
    [k |-> "slotfn", n |-> n, propsKey |-> e.PropsKey, scope |-> DataKey, body |-> srcCode]

\* genVSlot: the node's own code becomes `""`, its body moves into the map.
genVSlot(n, e, srcCode) ==
    [code |-> EmptyLit, namedSlotCode |-> MapPut(EmptyMap, e.SlotName, SlotFn(n, e, srcCode))]

\* injectVal: every {{ expr }} becomes "+interfaceToStr(<Js2Go(expr)>)+".
injectVal(text) ==
    [i \in 1..Len(text) |->
        IF text[i].t = "var"
        THEN [t |-> "interfaceToStr", c |-> Js2Go(text[i].s, DataKey)]
        ELSE [t |-> "txt", s |-> text[i].s]]

\* genAttrCode: the static attributes in AttrsKeys order, then class and style.
genAttrCode(e) ==
    [k |-> "attrs",
     attrs |-> [i \in 1..Len(e.AttrsKeys) |->
                    [key |-> e.AttrsKeys[i], val |-> e.Attrs[e.AttrsKeys[i]]]],
     class |-> e.Class,
     style |-> [i \in 1..Len(e.StyleKeys) |->
                    [key |-> e.StyleKeys[i], val |-> e.Style[e.StyleKeys[i]]]]]

---------------------------------------------------------------------------
(* VueElement.GenCode.  A result is                                        *)
(*   [code, slots, h, calls, crash]:                                       *)
(* the two return values, the Vue tree afterwards (ToGoCode deletes from   *)
(* the Props map the tree holds), the log of the GenCode calls that        *)
(* returned, in order of return, and whether the recursion never returns.  *)

Crashed(h) == [code |-> EmptyLit, slots |-> EmptyMap, h |-> h, calls |-> <<>>, crash |-> TRUE]

\* The frames a returning recursion can stack on heap h: a deeper stack
\* holds one node twice, and GenCode then recurses until the Go runtime
\* aborts the process with a stack overflow.
StackLimit(h) == Cardinality(DOMAIN h)

\* SkipChild without the `continue`: every child is generated in place.
SkipChildNever(v) == FALSE

\* The child filter of the children loop: else nodes are generated in their v-if.
SkipChild(v) == v.VElse \/ v.VElseIf

\* The options GenCode builds for a component call or a dynamic tag.
OptionsOf(e, defaultSlotCode, namedSlotCode) ==
    [StyleKeys |-> e.StyleKeys, Class |-> e.Class, Attrs |-> e.Attrs, Props |-> e.Props,
     Style |-> e.Style, DefaultSlotCode |-> defaultSlotCode,
     NamedSlotCode |-> namedSlotCode, Directives |-> e.Directives]

\* The tag dispatch of GenCode: [code |-> eleCode, Props |-> e.Props afterwards].
EleCode(n, e, components, ord, defaultSlotCode, namedSlotCode) ==
    IF e.TagName \in components
    THEN LET o == ToGoCode(OptionsOf(e, defaultSlotCode, namedSlotCode), ord)
         IN [code |-> [k |-> "component", n |-> n, tag |-> e.TagName, options |-> o.code],
             Props |-> o.Props]
    ELSE IF e.TagName = "template"
    THEN [code |-> defaultSlotCode, Props |-> e.Props]
    ELSE IF e.TagName = "__string"
    THEN [code |-> [k |-> "str", text |-> injectVal(e.Text)], Props |-> e.Props]
    ELSE IF e.IsRoot \/ Len(e.Directives) # 0
    THEN LET o == ToGoCode(OptionsOf(e, defaultSlotCode, namedSlotCode), ord)
         IN [code |-> [k |-> "tag", n |-> n, tag |-> e.TagName, isRoot |-> e.IsRoot,
                       options |-> o.code],
             Props |-> o.Props]
    ELSE [code |-> [k |-> "static", tag |-> e.TagName, attrs |-> genAttrCode(e),
                    slot |-> defaultSlotCode],
          Props |-> e.Props]

\* One rung of the ladder genVIf appends for a chain entry.
Rung(v, eleCode) ==
    IF v.Types = "else" THEN <<[t |-> "else", code |-> eleCode]>>
    ELSE IF v.Types = "elseif"
    THEN <<[t |-> "elseif", cond |-> Js2Go(v.Condition, DataKey), code |-> eleCode]>>
    ELSE <<>>

\* The directive decorators at the end of GenCode, up to the v-if ladder:
\* [code, slots] from eleCode and the named slots collected from the children.
\* v-for wraps first, then v-slot hoists, and v-if wraps what is left.
Decorate(n, e, eleCode, namedSlotCode) ==
    LET c1 == IF e.VFor # Nil THEN genVFor(e.VFor[1], eleCode) ELSE eleCode
        s2 == IF e.VSlot # Nil THEN genVSlot(n, e.VSlot[1], c1)
              ELSE [code |-> c1, namedSlotCode |-> EmptyMap]
    IN [code |-> s2.code, slots |-> MapMerge(namedSlotCode, s2.namedSlotCode)]

RECURSIVE GenCode(_, _, _, _, _)
RECURSIVE GenChildren(_, _, _, _, _, _)
RECURSIVE GenChain(_, _, _, _, _, _)

\* The children loop of GenCode from position i on; acc is
\* [parts, slots, h, calls, crash].
GenChildren(acc, ids, i, components, ord, depth) ==
    IF acc.crash \/ i > Len(ids) THEN acc
    ELSE IF SkipChild(acc.h[ids[i]])
    THEN GenChildren(acc, ids, i + 1, components, ord, depth)
    ELSE LET r == GenCode(acc.h, ids[i], components, ord, depth + 1)
         IN IF r.crash THEN [acc EXCEPT !.crash = TRUE]
            ELSE GenChildren([parts |-> Append(acc.parts, [n |-> ids[i], c |-> r.code]),
                              slots |-> MapMerge(acc.slots, r.slots),
                              h |-> r.h,
                              calls |-> acc.calls \o r.calls,
                              crash |-> FALSE],
                             ids, i + 1, components, ord, depth)

\* The chain loop of genVIf from entry i on; acc is [rungs, slots, h, calls, crash].
GenChain(acc, chain, i, components, ord, depth) ==
    IF acc.crash \/ i > Len(chain) THEN acc
    ELSE LET r == GenCode(acc.h, chain[i].VueElement, components, ord, depth + 1)
         IN IF r.crash THEN [acc EXCEPT !.crash = TRUE]
            ELSE GenChain([rungs |-> acc.rungs \o Rung(chain[i], r.code),
                           slots |-> MapMerge(acc.slots, r.slots),
                           h |-> r.h,
                           calls |-> acc.calls \o r.calls,
                           crash |-> FALSE],
                          chain, i + 1, components, ord, depth)

GenCode(h, n, components, ord, depth) ==
    IF depth > StackLimit(h) THEN Crashed(h)
    ELSE
    LET e0 == h[n]
        kids == GenChildren([parts |-> <<>>, slots |-> EmptyMap, h |-> h,
                             calls |-> <<>>, crash |-> FALSE],
                            e0.Children, 1, components, ord, depth)
        defaultSlotCode == IF kids.parts = <<>> THEN EmptyLit ELSE CatCode(kids.parts)
        e == kids.h[n]
        ele == EleCode(n, e, components, ord, defaultSlotCode, kids.slots)
        h1 == [kids.h EXCEPT ![n].Props = ele.Props]
        dec == Decorate(n, e, ele.code, kids.slots)
        chain == GenChain([rungs |-> <<>>, slots |-> EmptyMap, h |-> h1,
                           calls |-> <<>>, crash |-> FALSE],
                          IF e.VIf # Nil THEN e.VIf[1].ElseIf ELSE <<>>,
                          1, components, ord, depth)
        code == IF e.VIf # Nil
                THEN [k |-> "vif", cond |-> Js2Go(e.VIf[1].Condition, DataKey),
                      then |-> dec.code, rungs |-> chain.rungs]
                ELSE dec.code
        slots == MapMerge(dec.slots, chain.slots)
    IN IF kids.crash \/ chain.crash THEN Crashed(h)
       ELSE [code |-> code, slots |-> slots, h |-> chain.h,
             calls |-> kids.calls \o chain.calls \o
                       <<[n |-> n, code |-> code, slots |-> slots,
                          defaultSlotCode |-> defaultSlotCode,
                          namedSlotCode |-> kids.slots,
                          eleCode |-> ele.code]>>,
             crash |-> FALSE]

---------------------------------------------------------------------------
(* The state machine: the registry is configured, a template is read,      *)
(* and the template is compiled (ParseVue, then GenCode) MaxCompiles times. *)

\* NewApp
NewApp == {"component", "slot"}

\* The component names a host registers.
ComponentNames == {"comp"}

Init ==
    /\ app = NewApp
    /\ es = <<>>
    /\ phase = "edit"
    /\ vue = EmptyMap
    /\ gen = <<>>
    /\ outs = <<>>

\* App.Component(name), during configuration (before any template is read).
Component(name) ==
    /\ phase = "edit"
    /\ es = <<>>
    /\ name \notin app
    /\ app' = app \cup {name}
    /\ UNCHANGED <<es, phase, vue, gen, outs>>

\* parseHtml / hNodeToElement delivers the next element of the template, in
\* document order: a child of an element that is still open (a text node
\* has no children).
ReadElement(parent, item) ==
    /\ phase = "edit"
    /\ Len(es) < MaxNodes
    /\ parent \in Ancestors(es, Len(es))
    /\ parent # 0 => es[parent].TagName # "__string"
    /\ es' = Append(es, [TagName |-> Menu[item].TagName, Text |-> Menu[item].Text,
                         Attrs |-> Menu[item].Attrs, Parent |-> parent])
    /\ UNCHANGED <<app, phase, vue, gen, outs>>

\* ParseVue: lift the raw elements into a fresh Vue tree, or fail fatally.
ParseVue ==
    /\ phase \in {"edit", "generated"}
    /\ Len(outs) < MaxCompiles
    /\ \E r \in {ParseVueOf(es)} :
          IF r.panic
          THEN phase' = "fatal" /\ vue' = EmptyMap
          ELSE phase' = "parsed" /\ vue' = r.h
    /\ gen' = <<>>
    /\ UNCHANGED <<app, es, outs>>

\* Whether some map of the given kind can be printed with two or more keys:
\* only then does the iteration order of that kind show in the text.  (A
\* Slot map has a second key only when some node carries a v-slot.)
OrderShows(h, kind) ==
    \E n \in DOMAIN h :
        CASE kind = "props" -> Cardinality(DOMAIN h[n].Props) >= 2
          [] kind = "attrs" -> Cardinality(DOMAIN h[n].Attrs) >= 2
          [] kind = "style" -> Cardinality(DOMAIN h[n].Style) >= 2
          [] OTHER -> h[n].VSlot # Nil

\* v.GenCode(app) on the root of the Vue tree, under one map iteration order.
\* Orders that differ only where no order shows print the same text; one
\* of them is taken.
GenCodeRoot(ord) ==
    /\ phase = "parsed"
    /\ \A kind \in MapKinds : ord[kind] => OrderShows(vue, kind)
    /\ \E r \in {GenCode(vue, RootOf(es), app, ord, 1)} :
          IF r.crash
          THEN phase' = "crashed" /\ UNCHANGED <<vue, gen, outs>>
          ELSE /\ phase' = "generated"
               /\ vue' = r.h
               /\ gen' = <<[code |-> r.code, slots |-> r.slots, calls |-> r.calls]>>
               /\ outs' = Append(outs, [code |-> r.code, slots |-> r.slots])
    /\ UNCHANGED <<app, es>>

Next ==
    \/ \E name \in ComponentNames : Component(name)
    \/ \E parent \in 0..MaxNodes, item \in 1..Len(Menu) : ReadElement(parent, item)
    \/ ParseVue
    \/ \E ord \in Orders : GenCodeRoot(ord)

Spec == Init /\ [][Next]_vars

---------------------------------------------------------------------------
(* Vocabulary of the properties.                                           *)

Generated == phase = "generated"

\* The GenCode calls of the last compilation, one record per call.
Calls == IF gen = <<>> THEN {} ELSE {gen[1].calls[i] : i \in 1..Len(gen[1].calls)}

HasKey(e, key) == \E i \in 1..Len(e.Attrs) : e.Attrs[i].Key = <<key>>

\* The sibling right before element i (0: it is the first of its list).
PrevSibling(s, i) ==
    LET sib == Children(s, s[i].Parent)
        pos == CHOOSE j \in 1..Len(sib) : sib[j] = i
    IN IF pos = 1 THEN 0 ELSE sib[pos - 1]

RECURSIVE ChainOpenAfter(_, _)
\* Element j leaves a chain open: it has v-if, or it is a v-else-if (not also
\* a v-else) that continues an open chain.
ChainOpenAfter(s, j) ==
    \/ HasKey(s[j], "v-if")
    \/ /\ HasKey(s[j], "v-else-if")
       /\ ~HasKey(s[j], "v-else")
       /\ PrevSibling(s, j) # 0
       /\ ChainOpenAfter(s, PrevSibling(s, j))

Dangling(s, i) ==
    /\ HasKey(s[i], "v-else") \/ HasKey(s[i], "v-else-if")
    /\ \/ PrevSibling(s, i) = 0
       \/ ~ChainOpenAfter(s, PrevSibling(s, i))

ElseMarked(n) == vue[n].VElse \/ vue[n].VElseIf

\* The entries of a printed map with the given key.
EntriesAt(map, key) == {i \in 1..Len(map.entries) : map.entries[i].key = key}

\* The calls that printed an options literal, and the literal's Slot map.
HasOptions(c) == c.eleCode.k \in {"component", "tag"}

SlotOf(c) == c.eleCode.options.Slot

---------------------------------------------------------------------------
(* C1.  Compiling the same template twice (ParseVue, then GenCode, same    *)
(* registry) yields byte-identical generator output.                       *)
C1_SameOutputTwice == Len(outs) >= 2 => outs[1] = outs[2]

(* C2.  GenCode does not mutate the Vue tree: every node's fields are the  *)
(* same after GenCode returns as before the call.                          *)
C2_GenCodeKeepsTree == [][phase = "parsed" /\ phase' = "generated" => vue' = vue]_vars

(* C3.  A v-else / v-else-if element that is not immediately preceded by a *)
(* v-if element or a v-else-if of a still-open chain makes lifting fail:   *)
(* no lifted tree holds such a dangling element.                           *)
C3_DanglingElseIsFatal == phase = "parsed" => \A i \in 1..Len(es) : ~Dangling(es, i)

(* C4.  On every node of a lifted tree at most one of VElseIf / VElse is   *)
(* true.                                                                   *)
C4_AtMostOneElseFlag ==
    phase = "parsed" => \A n \in DOMAIN vue : ~(vue[n].VElse /\ vue[n].VElseIf)

(* C5.  The default slot code GenCode builds for a node holds no           *)
(* standalone expression of a child marked VElse or VElseIf; the code of   *)
(* such a node is a rung of the ladder of the v-if node whose chain holds  *)
(* it.                                                                     *)
C5_ElseOnlyInLadder ==
    Generated =>
      \A c \in Calls :
        /\ c.defaultSlotCode.k = "cat" =>
             \A i \in 1..Len(c.defaultSlotCode.parts) : ~ElseMarked(c.defaultSlotCode.parts[i].n)
        /\ ElseMarked(c.n) =>
             \E d \in Calls :
               /\ vue[d.n].VIf # Nil
               /\ d.code.k = "vif"
               /\ \E i \in 1..Len(vue[d.n].VIf[1].ElseIf) :
                    /\ vue[d.n].VIf[1].ElseIf[i].VueElement = c.n
                    /\ d.code.rungs[i].code = c.code

\* A node with a v-else child was generated: the child was skipped in place
\* and emitted in the ladder of its v-if sibling.
C5_Witness ==
    /\ Generated
    /\ \E c \in Calls :
         /\ c.defaultSlotCode.k = "cat"
         /\ \E i \in 1..Len(vue[c.n].Children) : ElseMarked(vue[c.n].Children[i])
         /\ \E d \in Calls : ElseMarked(d.n)

\* Where the body of the node of call c ends up: in its v-slot closure when
\* the node has a v-slot, else in the expression GenCode returns.
BodyOf(c) ==
    IF vue[c.n].VSlot # Nil /\ vue[c.n].VSlot[1].SlotName \in DOMAIN c.slots
    THEN c.slots[vue[c.n].VSlot[1].SlotName].body
    ELSE c.code

(* C6.  For an element with both v-if and v-for the emitted code places    *)
(* the v-for closure inside the v-if branch: the iteration is the `then`   *)
(* branch of the ladder.                                                   *)
C6_ForInsideIf ==
    Generated =>
      \A c \in Calls :
        (vue[c.n].VIf # Nil /\ vue[c.n].VFor # Nil) =>
          (BodyOf(c).k = "vif" /\ BodyOf(c).then.k = "vfor")

(* C7.  For every node with VSlot set, GenCode returns the literal `""`    *)
(* as the node's expression, and the returned named-slot map holds the     *)
(* node's closure under its slot name.                                     *)
C7_SlotNodeReturnsEmptyLit ==
    Generated =>
      \A c \in Calls :
        vue[c.n].VSlot # Nil =>
          /\ c.code = EmptyLit
          /\ vue[c.n].VSlot[1].SlotName \in DOMAIN c.slots
          /\ c.slots[vue[c.n].VSlot[1].SlotName].k = "slotfn"

(* C8 as stated.  In every options literal the `default` entry of Slot is  *)
(* the closure returning the node's default slot code.                     *)
C8_DefaultIsDefaultSlotCode ==
    Generated =>
      \A c \in Calls :
        HasOptions(c) =>
          /\ Cardinality(EntriesAt(SlotOf(c), "default")) = 1
          /\ \A i \in EntriesAt(SlotOf(c), "default") :
               SlotOf(c).entries[i].val = DefaultSlotFn(c.defaultSlotCode)

(* C8 amended.  Every options literal has exactly one `default` entry in   *)
(* Slot: the closure returning the node's default slot code (body `""`     *)
(* when the node has no children), unless the named-slot map collected     *)
(* from the children has an entry named `default`, which then takes its    *)
(* place.                                                                  *)
C8_DefaultAlwaysPresent ==
    Generated =>
      \A c \in Calls :
        HasOptions(c) =>
          /\ Cardinality(EntriesAt(SlotOf(c), "default")) = 1
          /\ \A i \in EntriesAt(SlotOf(c), "default") :
               SlotOf(c).entries[i].val =
                 IF "default" \in DOMAIN c.namedSlotCode
                 THEN c.namedSlotCode["default"]
                 ELSE DefaultSlotFn(c.defaultSlotCode)
          /\ vue[c.n].Children = <<>> =>
               \A i \in EntriesAt(SlotOf(c), "default") :
                 SlotOf(c).entries[i].val = DefaultSlotFn(EmptyLit)

\* An options literal was printed for a node whose children supplied a named
\* slot called `default`, next to one printed for a node with no children.
C8_Witness ==
    /\ Generated
    /\ \E c \in Calls : HasOptions(c) /\ "default" \in DOMAIN c.namedSlotCode
    /\ \E c \in Calls : HasOptions(c) /\ vue[c.n].Children = <<>>

(* C9.  For a node with v-slot and v-if and/or v-for, the closure stored   *)
(* under its slot name has the fully wrapped expression as body: the       *)
(* v-if ladder around the v-for closure around the node's code.            *)
C9_SlotBodyFullyWrapped ==
    Generated =>
      \A c \in Calls :
        (vue[c.n].VSlot # Nil /\ (vue[c.n].VIf # Nil \/ vue[c.n].VFor # Nil)) =>
          /\ vue[c.n].VSlot[1].SlotName \in DOMAIN c.slots
          /\ LET body == c.slots[vue[c.n].VSlot[1].SlotName].body
             IN IF vue[c.n].VIf # Nil
                THEN /\ body.k = "vif"
                     /\ vue[c.n].VFor # Nil => body.then.k = "vfor"
                ELSE body.k = "vfor"

(* C10.  Every named entry of the Slot map of an options literal comes     *)
(* from a v-slot on a direct child of the node the literal is printed for. *)
C10_NamedSlotsFromDirectChildren ==
    Generated =>
      \A c \in Calls :
        HasOptions(c) =>
          \A i \in 1..Len(SlotOf(c).entries) :
            SlotOf(c).entries[i].val.k = "slotfn" =>
              \E j \in 1..Len(vue[c.n].Children) :
                vue[c.n].Children[j] = SlotOf(c).entries[i].val.n

\* The chain entries <<m, i>> whose element is node n: entry i of the chain
\* of the VIf of node m.
ChainEntriesOf(n) ==
    UNION {{<<m, i>> : i \in {j \in 1..Len(vue[m].VIf[1].ElseIf) :
                                vue[m].VIf[1].ElseIf[j].VueElement = n}} :
           m \in {k \in DOMAIN vue : vue[k].VIf # Nil}}

\* Node m is a sibling of node n that comes strictly before it.
EarlierSibling(m, n) == m # 0 /\ n # 0 /\ m < n /\ es[m].Parent = es[n].Parent

\* The GenCode calls of the last compilation that were made on node n.
CallsOn(n) == {i \in 1..Len(gen[1].calls) : gen[1].calls[i].n = n}

\* In the lifted tree every else-marked node is the element of exactly one
\* chain entry, and that entry is in the chain of a strictly earlier sibling.
C11_ChainsWellFormed ==
    phase = "parsed" =>
      \A n \in DOMAIN vue :
        ElseMarked(n) =>
          /\ Cardinality(ChainEntriesOf(n)) = 1
          /\ \A p \in ChainEntriesOf(n) : EarlierSibling(p[1], n)

\* GenCode on a lifted tree returns.
C11_GenCodeTerminates == phase # "crashed"

\* A compilation generates code for every node of the tree exactly once.
C11_EveryNodeOnce == Generated => \A n \in DOMAIN vue : Cardinality(CallsOn(n)) = 1

(* C11.  In every tree the lifter returns, each node marked VElse or       *)
(* VElseIf is the element of exactly one chain entry, which belongs to the *)
(* VIf of a strictly earlier sibling (never of the node itself); GenCode   *)
(* on such a tree terminates and generates code for every node exactly     *)
(* once.                                                                   *)
C11_ElseChainsAndTermination ==
    /\ C11_ChainsWellFormed
    /\ C11_GenCodeTerminates
    /\ C11_EveryNodeOnce

=============================================================================
